---- MODULE Spec2Model ----
(***************************************************************************)
(* Model of vunit_helpers.py (p2l2/VUnit-helpers): the helper functions a  *)
(* VUnit run script calls once each to configure a build.  Every function  *)
(* is synchronous and runs to completion, so each is one action taking the *)
(* program from "idle" to "returned" or "raised"; what it did is recorded  *)
(* in the calls it made on its collaborators (VU, lib, git) and in the     *)
(* messages it handed to the module logger.                                *)
(***************************************************************************)
EXTENDS Integers, Sequences, FiniteSets, TLC

VARIABLES
    simulator,  \* what VU.get_simulator_name() reports
    pc,         \* "idle" | "returned" | "raised"
    fn,         \* name of the function that was called ("" while idle)
    args,       \* the arguments of the call
    frame,      \* the function's local variables when it ended
    calls,      \* calls made on VU / lib / subprocess, in order
    log,        \* calls made on the module logger, in order
    ret,        \* the returned value
    exception   \* "" or the name of the exception that left the function

vars == <<simulator, pc, fn, args, frame, calls, log, ret, exception>>

(***************************************************************************)
(* Bounds of the model.                                                    *)
(***************************************************************************)
MaxInc == 2     \* longest include_patterns list
MaxExc == 1     \* longest exclude_patterns list
MaxLibs == 3    \* longest used_libraries list

(***************************************************************************)
(* Python values.                                                          *)
(***************************************************************************)
None == [tag |-> "None", v |-> <<>>]
Str(s) == [tag |-> "str", v |-> <<s>>]
List(l) == [tag |-> "list", v |-> l]
Path(p) == [tag |-> "Path", v |-> p]

NoFrame == [include_files |-> <<>>, exclude_files |-> <<>>, file_names |-> <<>>]

\* A call on a collaborator: obj.op(name, path, **opts); path is a list of files
\* or the components of one path.
Call(op, obj, name, path, opts) ==
    [op |-> op, obj |-> obj, name |-> name, path |-> path, opts |-> opts]
Msg(level, text, subject) == [level |-> level, text |-> text, subject |-> subject]

InSeq(x, s) == \E i \in 1..Len(s) : s[i] = x

(***************************************************************************)
(* The simulators VU.get_simulator_name() may report.                      *)
(***************************************************************************)
Simulators == {"ghdl", "modelsim", "nvc"}

(***************************************************************************)
(* The file system glob() reads: two VHDL files in directory a, listed in  *)
(* this order, and no directory c.                                         *)
(***************************************************************************)
Disk == <<"a/x.vhd", "a/y.vhd">>
Globs == {"a/*.vhd", "a/y.vhd", "c/*.vhd"}

Matches(pattern, path) ==
    CASE pattern = "a/*.vhd" -> path \in {"a/x.vhd", "a/y.vhd"}
      [] pattern = "a/y.vhd" -> path = "a/y.vhd"
      [] OTHER -> FALSE

glob(pattern) == SelectSeq(Disk, LAMBDA f : Matches(pattern, f))

(***************************************************************************)
(* class File_pattern                                                      *)
(***************************************************************************)
File_pattern(pattern, when_simulator_is, when_simulator_is_not) ==
    [pattern |-> pattern,
     include_simulators |->
        IF when_simulator_is.tag = "str"
            THEN List(when_simulator_is.v) ELSE when_simulator_is,
     exclude_simulators |->
        IF when_simulator_is_not.tag = "str"
            THEN List(when_simulator_is_not.v) ELSE when_simulator_is_not]

\* The values the run scripts give to when_simulator_is / when_simulator_is_not.
AllowArgs == {None, Str("ghdl")}
DenyArgs == {None, List(<<"modelsim", "nvc">>)}

File_patterns ==
    {File_pattern(g, a, d) : g \in Globs, a \in AllowArgs, d \in DenyArgs}

SeqsUpTo(S, n) == UNION {[1..k -> S] : k \in 0..n}

(***************************************************************************)
(* The pass-through options of lib.add_source_files.                       *)
(***************************************************************************)
DefaultOpts ==
    [preprocessors |-> "None", include_dirs |-> "None", defines |-> "None",
     allow_empty |-> FALSE, vhdl_standard |-> "None", no_parse |-> FALSE,
     file_type |-> "None"]
CustomOpts ==
    [preprocessors |-> "pp", include_dirs |-> "inc", defines |-> "DEBUG",
     allow_empty |-> TRUE, vhdl_standard |-> "2008", no_parse |-> TRUE,
     file_type |-> "vhdl"]
\* A call that passes no keyword arguments.
NoOpts == None
OptsSet == {DefaultOpts, CustomOpts}

(***************************************************************************)
(* advanced_add_source_files                                               *)
(***************************************************************************)
\* x in l, for l a list or None: "in" on None raises TypeError.
\* Result "True", "False" or "TypeError".
PyIn(x, l) ==
    IF l = None THEN "TypeError"
    ELSE IF InSeq(x, l.v) THEN "True" ELSE "False"

\* SimulatorTest with the two parenthesised conditions joined by "or".
SimulatorTestOr(file_pattern, sim) ==
    LET inc == file_pattern.include_simulators
        exc == file_pattern.exclude_simulators
        left == IF inc = None THEN "True" ELSE PyIn(sim, inc)
    IN  IF left = "True" \/ exc = None THEN "True"
        ELSE IF left = "False" THEN "True" ELSE "False"

\* The condition of lines 204 and 218, with Python's short-circuit evaluation:
\* (inc == None or sim in inc) and (exc == None or not (sim in inc))
SimulatorTest(file_pattern, sim) ==
    LET inc == file_pattern.include_simulators
        exc == file_pattern.exclude_simulators
        left == IF inc = None THEN "True" ELSE PyIn(sim, inc)
    IN  IF left # "True" THEN left
        ELSE IF exc = None THEN "True"
        ELSE LET r == PyIn(sim, inc)
             IN  CASE r = "True" -> "False"
                   [] r = "False" -> "True"
                   [] OTHER -> r

\* PatternStep with "=" for "+=": the matches replace the files found so far.
PatternStepAssign(st, file_pattern, sim, kind) ==
    LET t == SimulatorTest(file_pattern, sim)
        files == glob(file_pattern.pattern)
    IN  CASE t = "TypeError" -> [st EXCEPT !.exception = "TypeError"]
          [] t = "True" /\ files = <<>> ->
                [st EXCEPT !.log = Append(@,
                    Msg("warning", kind \o " file pattern did not match any file",
                        file_pattern.pattern))]
          [] t = "True" /\ files # <<>> ->
                [st EXCEPT !.files = files]
          [] OTHER ->
                [st EXCEPT !.log = Append(@,
                    Msg("debug", kind \o " pattern was not processed",
                        file_pattern.pattern))]

\* One pass of the loop body (lines 204-213 / 218-227) over st =
\* [files, log, exception]; kind is "Include" or "Exclude".
PatternStep(st, file_pattern, sim, kind) ==
    LET t == SimulatorTest(file_pattern, sim)
        files == glob(file_pattern.pattern)
    IN  CASE t = "TypeError" -> [st EXCEPT !.exception = "TypeError"]
          [] t = "True" /\ files = <<>> ->
                [st EXCEPT !.log = Append(@,
                    Msg("warning", kind \o " file pattern did not match any file",
                        file_pattern.pattern))]
          [] t = "True" /\ files # <<>> ->
                [st EXCEPT !.files = @ \o files]
          [] OTHER ->
                [st EXCEPT !.log = Append(@,
                    Msg("debug", kind \o " pattern was not processed",
                        file_pattern.pattern))]

\* The for loop of lines 203-213 / 217-227; an exception ends it.
RECURSIVE PatternLoop(_, _, _, _)
PatternLoop(st, patterns, sim, kind) ==
    IF patterns = <<>> \/ st.exception # "" THEN st
    ELSE PatternLoop(PatternStep(st, Head(patterns), sim, kind),
                     Tail(patterns), sim, kind)

\* file_names = [x for x in include_files if x not in exclude_files]
FileNames(include_files, exclude_files) ==
    SelectSeq(include_files, LAMBDA x : ~InSeq(x, exclude_files))

DebugList(text, files) == [i \in 1..Len(files) |-> Msg("debug", text, files[i])]

\* The whole function; the result is what it leaves behind.
advanced_add_source_files(sim, include_patterns, exclude_patterns, opts) ==
    LET inc == PatternLoop([files |-> <<>>, log |-> <<>>, exception |-> ""],
                           include_patterns, sim, "Include")
        exc == IF inc.exception # "" \/ exclude_patterns = None
               THEN [files |-> <<>>, log |-> inc.log, exception |-> inc.exception]
               ELSE PatternLoop([files |-> <<>>, log |-> inc.log, exception |-> ""],
                                exclude_patterns.v, sim, "Exclude")
        file_names == FileNames(inc.files, exc.files)
    IN  IF exc.exception # ""
        THEN [frame |-> [include_files |-> inc.files, exclude_files |-> exc.files,
                         file_names |-> <<>>],
              log |-> exc.log, calls |-> <<>>, exception |-> exc.exception]
        ELSE [frame |-> [include_files |-> inc.files, exclude_files |-> exc.files,
                         file_names |-> file_names],
              log |-> exc.log \o DebugList("including", inc.files)
                              \o DebugList("excluding", exc.files)
                              \o DebugList("remaining", file_names),
              calls |-> <<Call("add_source_files", "lib", "", file_names, opts)>>,
              exception |-> ""]

ExcludeArgs == {None} \cup {List(l) : l \in SeqsUpTo(File_patterns, MaxExc)}

AdvancedAddSourceFiles ==
    /\ pc = "idle"
    /\ \E include_patterns \in SeqsUpTo(File_patterns, MaxInc),
          exclude_patterns \in ExcludeArgs, opts \in OptsSet :
        LET r == advanced_add_source_files(simulator, include_patterns,
                                           exclude_patterns, opts)
        IN  /\ fn' = "advanced_add_source_files"
            /\ args' = [include_patterns |-> include_patterns,
                        exclude_patterns |-> exclude_patterns, opts |-> opts]
            /\ frame' = r.frame
            /\ calls' = r.calls
            /\ log' = r.log
            /\ exception' = r.exception
            /\ ret' = None
            /\ pc' = IF r.exception = "" THEN "returned" ELSE "raised"
            /\ UNCHANGED simulator

(***************************************************************************)
(* get_git_repo_root_path                                                  *)
(***************************************************************************)
\* Exit codes of `git branch`: 0 inside a repository, 128 outside one.
ExitCodes == {0, 1, 128}

\* What `git rev-parse --show-toplevel` writes to stdout, as bytes grouped
\* into the path components and the line end.
Stdouts == {<<"/home", "/user", "/project", "\n">>, <<"/repo", "\r", "\n">>}

Whitespace == {" ", "\t", "\n", "\r"}

\* bytes.rstrip(): drop the trailing whitespace.
RECURSIVE rstrip(_)
rstrip(bytes) ==
    IF bytes # <<>> /\ bytes[Len(bytes)] \in Whitespace
    THEN rstrip(SubSeq(bytes, 1, Len(bytes) - 1))
    ELSE bytes

GitBranch == Call("subprocess.call", "git", "branch", <<>>, NoOpts)
GitRevParse == Call("subprocess.Popen", "git", "rev-parse --show-toplevel", <<>>, NoOpts)

\* The whole function: the early return of line 39 leaves before line 40.
get_git_repo_root_path(rc, stdout) ==
    IF rc # 0
    THEN [calls |-> <<GitBranch>>, log |-> <<>>, ret |-> None]
    ELSE LET git_repo_dir == rstrip(stdout)
         IN  [calls |-> <<GitBranch, GitRevParse>>,
              log |-> <<Msg("debug", "git repo path", "")>>,
              ret |-> Path(git_repo_dir)]

GetGitRepoRootPath ==
    /\ pc = "idle"
    /\ \E rc \in ExitCodes, stdout \in Stdouts :
        LET r == get_git_repo_root_path(rc, stdout)
        IN  /\ fn' = "get_git_repo_root_path"
            /\ args' = [rc |-> rc, stdout |-> stdout]
            /\ frame' = NoFrame
            /\ calls' = r.calls
            /\ log' = r.log
            /\ ret' = r.ret
            /\ exception' = ""
            /\ pc' = "returned"
            /\ UNCHANGED simulator

(***************************************************************************)
(* add_uvvm_sources and add_precompiled_uvvm_libraries                     *)
(***************************************************************************)
LibNames ==
    {"uvvm_util", "uvvm_vvc_framework", "bitvis_vip_scoreboard",
     "bitvis_vip_clock_generator", "bitvis_vip_uart"}

\* VUnit refuses a library name it already has, so the lists name each
\* library once.
LibLists ==
    {l \in SeqsUpTo(LibNames, MaxLibs) :
        \A i, j \in 1..Len(l) : l[i] = l[j] => i = j}

\* UVVM_root_path, as path components.
Roots == {<<"uvvm">>, <<"repo", "verification", "uvvm">>}

\* NeedsTargetDependent with "or" for "and".
NeedsTargetDependentOr(libname) ==
    \/ libname # "uvvm_vvc_framework"
    \/ libname # "uvvm_util"
    \/ libname # "bitvis_vip_scoreboard"

\* The condition of line 93.
NeedsTargetDependent(libname) ==
    /\ libname # "uvvm_vvc_framework"
    /\ libname # "uvvm_util"
    /\ libname # "bitvis_vip_scoreboard"

\* The body of the loop of lines 90-95 for one library.
UvvmStep(libname, UVVM_root_path) ==
    <<Call("add_library", "VU", libname, <<>>, NoOpts),
      Call("add_source_files", libname, "",
           UVVM_root_path \o <<libname, "src", "*.vhd">>, NoOpts)>>
    \o (IF NeedsTargetDependent(libname)
        THEN <<Call("add_source_files", libname, "",
                    UVVM_root_path
                        \o <<"uvvm_vvc_framework", "src_target_dependent", "*.vhd">>,
                    NoOpts)>>
        ELSE <<>>)

RECURSIVE add_uvvm_sources(_, _)
add_uvvm_sources(used_libraries, UVVM_root_path) ==
    IF used_libraries = <<>> THEN <<>>
    ELSE UvvmStep(Head(used_libraries), UVVM_root_path)
            \o add_uvvm_sources(Tail(used_libraries), UVVM_root_path)

AddUvvmSources ==
    /\ pc = "idle"
    /\ \E used_libraries \in LibLists, UVVM_root_path \in Roots :
        /\ fn' = "add_uvvm_sources"
        /\ args' = [used_libraries |-> used_libraries,
                    UVVM_root_path |-> UVVM_root_path]
        /\ frame' = NoFrame
        /\ calls' = add_uvvm_sources(used_libraries, UVVM_root_path)
        /\ log' = <<>>
        /\ ret' = None
        /\ exception' = ""
        /\ pc' = "returned"
        /\ UNCHANGED simulator

\* ModelsimLocation without the library directory below sim.
ModelsimLocationShort(UVVM_root_path, libname) ==
    UVVM_root_path \o <<libname, "sim">>

\* location of lines 115 and 120.
ModelsimLocation(UVVM_root_path, libname) ==
    UVVM_root_path \o <<libname, "sim", libname>>
GhdlLocation(UVVM_root_path, libname) ==
    UVVM_root_path \o <<libname, "v08">>

\* The loops of lines 114-117 and 119-122: [calls, log] after the loop.
RECURSIVE PrecompiledLoop(_, _, _, _)
PrecompiledLoop(st, used_libraries, UVVM_root_path, sim) ==
    IF used_libraries = <<>> THEN st
    ELSE LET libname == Head(used_libraries)
             location == IF sim = "modelsim"
                         THEN ModelsimLocation(UVVM_root_path, libname)
                         ELSE GhdlLocation(UVVM_root_path, libname)
         IN  PrecompiledLoop(
                [calls |-> Append(st.calls,
                    Call("add_external_library", "VU", libname, location, NoOpts)),
                 log |-> Append(st.log, Msg("debug", "adding library", libname))],
                Tail(used_libraries), UVVM_root_path, sim)

add_precompiled_uvvm_libraries(sim, used_libraries, UVVM_root_path) ==
    LET st == [calls |-> <<>>, log |-> <<Msg("debug", "Active simulator", sim)>>]
    IN  IF sim = "modelsim" \/ sim = "ghdl"
        THEN PrecompiledLoop(st, used_libraries, UVVM_root_path, sim)
        ELSE [st EXCEPT !.log = Append(@,
                Msg("error", "Adding precompiled UVVM libraries is not supported", sim))]

AddPrecompiledUvvmLibraries ==
    /\ pc = "idle"
    /\ \E used_libraries \in LibLists, UVVM_root_path \in Roots :
        LET r == add_precompiled_uvvm_libraries(simulator, used_libraries,
                                                UVVM_root_path)
        IN  /\ fn' = "add_precompiled_uvvm_libraries"
            /\ args' = [used_libraries |-> used_libraries,
                        UVVM_root_path |-> UVVM_root_path]
            /\ frame' = NoFrame
            /\ calls' = r.calls
            /\ log' = r.log
            /\ ret' = None
            /\ exception' = ""
            /\ pc' = "returned"
            /\ UNCHANGED simulator

(***************************************************************************)
(* Specifications.  Init is the run script after VU was constructed: the   *)
(* simulator is chosen and no helper was called yet.  Spec is the file     *)
(* selection; SpecUvvm is the repository lookup and the UVVM wiring.       *)
(***************************************************************************)
Init ==
    /\ simulator \in Simulators
    /\ pc = "idle"
    /\ fn = ""
    /\ args = None
    /\ frame = NoFrame
    /\ calls = <<>>
    /\ log = <<>>
    /\ ret = None
    /\ exception = ""

Next == AdvancedAddSourceFiles

Spec == Init /\ [][Next]_vars

NextUvvm ==
    \/ GetGitRepoRootPath
    \/ AddUvvmSources
    \/ AddPrecompiledUvvmLibraries

SpecUvvm == Init /\ [][NextUvvm]_vars

(***************************************************************************)
(* Vocabulary of the properties.                                           *)
(***************************************************************************)
Selected == pc # "idle" /\ fn = "advanced_add_source_files"

\* Eligibility as File_pattern's parameters document it: the allow-list
\* when_simulator_is is unset or names the simulator, and the deny-list
\* when_simulator_is_not is unset or does not name it.
Eligible(file_pattern, sim) ==
    /\ \/ file_pattern.include_simulators = None
       \/ InSeq(sim, file_pattern.include_simulators.v)
    /\ \/ file_pattern.exclude_simulators = None
       \/ ~InSeq(sim, file_pattern.exclude_simulators.v)

\* The allow-list is set and does not name the simulator.
AllowMismatch(file_pattern, sim) ==
    /\ file_pattern.include_simulators # None
    /\ ~InSeq(sim, file_pattern.include_simulators.v)

\* The function's own test accepts the pattern.
Accepted(file_pattern, sim) ==
    /\ ~AllowMismatch(file_pattern, sim)
    /\ file_pattern.exclude_simulators = None

\* Concatenation of the glob expansions of the patterns, in list order.
RECURSIVE ConcatGlobs(_)
ConcatGlobs(patterns) ==
    IF patterns = <<>> THEN <<>>
    ELSE glob(Head(patterns).pattern) \o ConcatGlobs(Tail(patterns))

\* The expansions of the eligible patterns, and of the accepted ones.
EligibleExpansion(patterns, sim) ==
    ConcatGlobs(SelectSeq(patterns, LAMBDA p : Eligible(p, sim)))
AcceptedExpansion(patterns, sim) ==
    ConcatGlobs(SelectSeq(patterns, LAMBDA p : Accepted(p, sim)))

\* s without the later occurrences of its elements.
RECURSIVE Dedup(_)
Dedup(s) ==
    IF s = <<>> THEN <<>>
    ELSE LET front == Dedup(SubSeq(s, 1, Len(s) - 1))
             last == s[Len(s)]
         IN  IF InSeq(last, front) THEN front ELSE Append(front, last)

Occurrences(x, s) == Cardinality({i \in 1..Len(s) : s[i] = x})

\* The exclude patterns of the call, [] when the argument is None.
ExcludePatterns == args.exclude_patterns.v

NoExcludes == ExcludePatterns = <<>>

\* The list handed to lib.add_source_files.
Registered == calls[1].path

Warnings(kind) ==
    SelectSeq(log, LAMBDA m :
        m.level = "warning" /\ m.text = kind \o " file pattern did not match any file")

C2_Eligibility ==
    Selected
    => /\ exception = ""
       /\ frame.include_files =
            EligibleExpansion(args.include_patterns, simulator)
       /\ frame.exclude_files =
            EligibleExpansion(ExcludePatterns, simulator)

(***************************************************************************)
(* C3: advanced_add_source_files raises nothing of its own: every call     *)
(* reaches the single call of lib.add_source_files.                        *)
(***************************************************************************)
C3_NoException ==
    Selected => (exception = "" /\ pc = "returned" /\ Len(calls) = 1)

(***************************************************************************)
(* C4: exclude always wins: a path matched by an eligible include pattern  *)
(* and an eligible exclude pattern is not registered, and a path matched   *)
(* by an eligible include pattern and no eligible exclude pattern is.      *)
(***************************************************************************)
MatchedBy(f, patterns, sim) ==
    \E i \in 1..Len(patterns) :
        Eligible(patterns[i], sim) /\ InSeq(f, glob(patterns[i].pattern))

C4_ExcludeWins ==
    Selected
    => \A f \in {Disk[k] : k \in 1..Len(Disk)} :
        MatchedBy(f, args.include_patterns, simulator)
        => /\ Len(calls) = 1
           /\ InSeq(f, Registered) <=> ~MatchedBy(f, ExcludePatterns, simulator)

(***************************************************************************)
(* C5: a pattern whose allow-list is set and does not name the active      *)
(* simulator contributes nothing: every included (excluded) file comes     *)
(* from an include (exclude) pattern without such a mismatch, and the call *)
(* ends as it does with the mismatched patterns taken out of both lists.   *)
(***************************************************************************)
WithoutMismatch(patterns, sim) ==
    SelectSeq(patterns, LAMBDA p : ~AllowMismatch(p, sim))

C5_AllowMismatchContributesNothing ==
    Selected
    => LET keptInc == WithoutMismatch(args.include_patterns, simulator)
           keptExc == IF args.exclude_patterns = None THEN None
                      ELSE List(WithoutMismatch(ExcludePatterns, simulator))
           r == advanced_add_source_files(simulator, keptInc, keptExc, args.opts)
       IN  /\ \A i \in 1..Len(frame.include_files) :
                \E j \in 1..Len(keptInc) :
                    InSeq(frame.include_files[i], glob(keptInc[j].pattern))
           /\ \A i \in 1..Len(frame.exclude_files) :
                \E j \in 1..Len(keptExc.v) :
                    InSeq(frame.exclude_files[i], glob(keptExc.v[j].pattern))
           /\ Len(frame.include_files) <= Len(ConcatGlobs(keptInc))
           /\ Len(frame.exclude_files) <= Len(ConcatGlobs(keptExc.v))
           /\ frame = r.frame
           /\ calls = r.calls
           /\ exception = r.exception

C5_Witness ==
    /\ Selected /\ pc = "returned"
    /\ simulator = "modelsim"
    /\ Len(args.include_patterns) = 2
    /\ AllowMismatch(args.include_patterns[1], simulator)
    /\ args.include_patterns[1].pattern = "a/*.vhd"
    /\ args.include_patterns[2].pattern = "a/y.vhd"
    /\ Len(ExcludePatterns) = 1
    /\ AllowMismatch(ExcludePatterns[1], simulator)
    /\ ExcludePatterns[1].pattern = "a/y.vhd"
    /\ Registered = <<"a/y.vhd">>

(***************************************************************************)
(* C6: a warning is logged for a pattern exactly when the pattern is       *)
(* eligible and matches no file, and neither a skipped pattern nor an      *)
(* empty match keeps the other patterns or the registration from running.  *)
(***************************************************************************)
EmptyEligible(patterns, sim) ==
    SelectSeq(patterns, LAMBDA p : Eligible(p, sim) /\ glob(p.pattern) = <<>>)

C6_WarningIffEligibleAndEmpty ==
    Selected
    => /\ Len(calls) = 1
       /\ [i \in 1..Len(Warnings("Include")) |-> Warnings("Include")[i].subject]
            = [i \in 1..Len(EmptyEligible(args.include_patterns, simulator)) |->
                    EmptyEligible(args.include_patterns, simulator)[i].pattern]
       /\ [i \in 1..Len(Warnings("Exclude")) |-> Warnings("Exclude")[i].subject]
            = [i \in 1..Len(EmptyEligible(ExcludePatterns, simulator)) |->
                    EmptyEligible(ExcludePatterns, simulator)[i].pattern]

(***************************************************************************)
(* C7: outside a repository (git branch exits non-zero)                    *)
(* get_git_repo_root_path returns None, logs a warning, raises nothing and *)
(* never runs git rev-parse; inside one it returns the reported path.      *)
(***************************************************************************)
C7_NotARepository ==
    (pc # "idle" /\ fn = "get_git_repo_root_path")
    => IF args.rc # 0
       THEN /\ ret = None
            /\ exception = ""
            /\ \E i \in 1..Len(log) : log[i].level = "warning"
            /\ \A i \in 1..Len(calls) : calls[i] # GitRevParse
       ELSE /\ ret.tag = "Path"
            /\ exception = ""
            /\ Len(ret.v) <= Len(args.stdout)
            /\ ret.v = SubSeq(args.stdout, 1, Len(ret.v))
            /\ ret.v # <<>> => ret.v[Len(ret.v)] \notin Whitespace
            /\ \A i \in Len(ret.v) + 1..Len(args.stdout) :
                    args.stdout[i] \in Whitespace

(***************************************************************************)
(* C8: add_precompiled_uvvm_libraries under a simulator other than         *)
(* modelsim and ghdl logs an error and calls add_external_library for no   *)
(* library; under modelsim or ghdl it calls it once per entry of           *)
(* used_libraries, in list order, with root/lib/sim/lib resp. root/lib/v08 *)
(* as location, and logs no error.                                         *)
(***************************************************************************)
ErrorLogged == \E i \in 1..Len(log) : log[i].level = "error"

C8_PrecompiledLibraries ==
    (pc # "idle" /\ fn = "add_precompiled_uvvm_libraries")
    => IF simulator \notin {"modelsim", "ghdl"}
       THEN calls = <<>> /\ ErrorLogged /\ exception = ""
       ELSE /\ ~ErrorLogged
            /\ Len(calls) = Len(args.used_libraries)
            /\ \A i \in 1..Len(calls) :
                /\ calls[i].op = "add_external_library"
                /\ calls[i].obj = "VU"
                /\ calls[i].name = args.used_libraries[i]
                /\ calls[i].path =
                    IF simulator = "modelsim"
                    THEN args.UVVM_root_path
                            \o <<args.used_libraries[i], "sim", args.used_libraries[i]>>
                    ELSE args.UVVM_root_path \o <<args.used_libraries[i], "v08">>

C8_Witness ==
    /\ pc = "returned" /\ fn = "add_precompiled_uvvm_libraries"
    /\ simulator = "modelsim"
    /\ Len(args.used_libraries) = 2
    /\ Len(calls) = 2
    /\ calls[2].path = <<"uvvm", "uvvm_util", "sim", "uvvm_util">>

(***************************************************************************)
(* C9: every call of advanced_add_source_files makes exactly one call of   *)
(* lib.add_source_files, also for an empty file list, and hands it the     *)
(* pass-through options unchanged.                                         *)
(***************************************************************************)
C9_ExactlyOneRegistration ==
    Selected
    => /\ Len(calls) = 1
       /\ calls[1].op = "add_source_files"
       /\ calls[1].obj = "lib"
       /\ calls[1].opts = args.opts

(***************************************************************************)
(* C10: add_uvvm_sources goes through used_libraries in list order; for    *)
(* each entry it calls VU.add_library(name) once, then adds                *)
(* root/name/src/*.vhd to that library, and then adds the target-dependent *)
(* sources to it exactly when the name is none of uvvm_vvc_framework,      *)
(* uvvm_util and bitvis_vip_scoreboard.                                    *)
(***************************************************************************)
FrameworkLibs == {"uvvm_vvc_framework", "uvvm_util", "bitvis_vip_scoreboard"}

TargetDependent(root) ==
    root \o <<"uvvm_vvc_framework", "src_target_dependent", "*.vhd">>

AddLibraryCalls == SelectSeq(calls, LAMBDA c : c.op = "add_library")

C10_UvvmSourcesOrder ==
    (pc # "idle" /\ fn = "add_uvvm_sources")
    => LET libs == args.used_libraries
           root == args.UVVM_root_path
       IN  /\ [i \in 1..Len(AddLibraryCalls) |-> AddLibraryCalls[i].name] = libs
           /\ Len(calls) = 2 * Len(libs)
                + Cardinality({i \in 1..Len(libs) : libs[i] \notin FrameworkLibs})
           /\ calls # <<>> => calls[1].op = "add_library"
           /\ \A k \in 1..Len(calls) :
                calls[k].op = "add_library"
                => /\ calls[k].obj = "VU"
                   /\ k + 1 <= Len(calls)
                   /\ calls[k + 1] =
                        Call("add_source_files", calls[k].name, "",
                             root \o <<calls[k].name, "src", "*.vhd">>, NoOpts)
                   /\ IF calls[k].name \in FrameworkLibs
                      THEN k + 2 <= Len(calls) => calls[k + 2].op = "add_library"
                      ELSE /\ k + 2 <= Len(calls)
                           /\ calls[k + 2] =
                                Call("add_source_files", calls[k].name, "",
                                     TargetDependent(root), NoOpts)
                           /\ k + 3 <= Len(calls) => calls[k + 3].op = "add_library"

C10_Witness ==
    /\ pc = "returned" /\ fn = "add_uvvm_sources"
    /\ args.used_libraries = <<"uvvm_util", "bitvis_vip_uart", "uvvm_vvc_framework">>
    /\ Len(calls) = 7
    /\ calls[5].path = TargetDependent(args.UVVM_root_path)

====
